---- MODULE Spec2Model ----
(***************************************************************************)
(* The dynamic-resource handlers of the HTTP server sample (src/main.c):   *)
(* echo_handler, uptime_handler and led_handler with parse_led_post, as a  *)
(* state machine driven by a transport that delivers each request body in  *)
(* chunks (MORE_DATA ... FINAL, or ABORTED).                               *)
(*                                                                         *)
(* Bytes are one-character strings; a buffer is a sequence of bytes, index *)
(* i of the model being offset i-1 of the C array. post_payload_buf holds  *)
(* the bytes of the array below the cursor, the only ones the handler ever *)
(* reads: memcpy writes from the cursor on and the decoder is given the    *)
(* length cursor.                                                          *)
(***************************************************************************)
EXTENDS Integers, Sequences, FiniteSets, TLC

VARIABLES
    post_payload_buf,   \* led_handler: post_payload_buf[0..cursor) of the static array
    cursor,             \* led_handler: static size_t cursor
    processed,          \* echo_handler: static size_t processed
    uptime_buf,         \* uptime_handler: static uint8_t uptime_buf[...]
    leds_dev,           \* the LED device, or NULL when the build has none
    clock,              \* index of the value k_uptime_get() returns now
    led_req,            \* transport: the request in flight on /led
    echo_req,           \* transport: the request in flight on /dynamic
    uptime_req,         \* transport: the request in flight on /uptime
    last,               \* the last handler invocation since a request arrived
    led_calls,          \* actuator calls the events of led_req made
    oob_write,          \* some memcpy of led_handler wrote at an offset >= 32
    echo_in,            \* payloads given to echo_handler in the current request
    echo_out,           \* response bodies echo_handler emitted in that request
    echo_total,         \* bytes given to echo_handler since the last FINAL or ABORTED
    led_req2            \* transport: a request on /led from a second connection

vars == <<post_payload_buf, cursor, processed, uptime_buf, leds_dev, clock,
          led_req, echo_req, uptime_req, last, led_calls, oob_write,
          echo_in, echo_out, echo_total, led_req2>>

ledVars == <<post_payload_buf, cursor, led_calls, oob_write, led_req2>>
echoVars == <<processed, echo_in, echo_out, echo_total>>
uptimeVars == <<uptime_buf>>

-----------------------------------------------------------------------------
(* enum http_data_status *)
HTTP_SERVER_DATA_ABORTED == "ABORTED"
HTTP_SERVER_DATA_MORE == "MORE_DATA"
HTTP_SERVER_DATA_FINAL == "FINAL"

ENOMEM == 12
EINVAL == 22
NULL == "NULL"
NUL == "NUL"            \* the byte '\0'

sizeof_post_payload_buf == 32

Min(a, b) == IF a < b THEN a ELSE b

(* The first n elements of s, or all of s when it has fewer. *)
Take(s, n) == SubSeq(s, 1, Min(n, Len(s)))

(* A pointer is the sequence of what it points to: <<>> is the null pointer, *)
(* <<x>> points to x.                                                       *)
NullPtr == <<>>
PtrTo(x) == <<x>>

(* struct http_response_ctx as the transport hands it in: zeroed. *)
EmptyRsp == [body |-> NullPtr, body_len |-> 0, final_chunk |-> FALSE]

(* size_t has 32 bits on the Cortex-M4 this firmware is built for. A size_t *)
(* is held as the integer that has the same 32 bits in two's complement: a  *)
(* value v below 2^31 as v, a value v from 2^31 on as v - 2^32; so the      *)
(* counts the handlers meet with bodies of a few bytes are the plain        *)
(* integers. Lo and Hi are the two 16-bit halves of the 32 bits.            *)
HalfWord == 65536
Lo(v) == v % HalfWord
Hi(v) == ((v - Lo(v)) \div HalfWord) % HalfWord
SizeT(hi, lo) ==
    IF hi < HalfWord \div 2 THEN hi * HalfWord + lo ELSE (hi - HalfWord) * HalfWord + lo

(* a + b and a > b in size_t: the sum is taken modulo 2^32, the comparison  *)
(* is unsigned.                                                             *)
size_t_add(a, b) ==
    LET lo == Lo(a) + Lo(b) IN
    SizeT((Hi(a) + Hi(b) + lo \div HalfWord) % HalfWord, lo % HalfWord)
size_t_gt(a, b) == IF (a < 0) = (b < 0) THEN a > b ELSE a < 0
SIZE_MAX == SizeT(HalfWord - 1, HalfWord - 1)

(* A count of bytes that no size_t bounds, as three 16-bit limbs, the most  *)
(* significant first; Wide(v) is the size_t v as such a count.              *)
Wide(v) == <<0, Hi(v), Lo(v)>>
WideAdd(x, y) ==
    LET l0 == x[3] + y[3]
        l1 == x[2] + y[2] + l0 \div HalfWord IN
    <<x[1] + y[1] + l1 \div HalfWord, l1 % HalfWord, l0 % HalfWord>>

-----------------------------------------------------------------------------
(* The JSON decoder the LED handler calls: json_obj_parse of the Zephyr     *)
(* library with the descriptor led_command_descr.                           *)

isspace(c) == c \in {" ", "\t", "\n", "\r"}
isdigit(c) == c \in {"0", "1", "2", "3", "4", "5", "6", "7", "8", "9"}

DigitValue(c) ==
    CASE c = "0" -> 0 [] c = "1" -> 1 [] c = "2" -> 2 [] c = "3" -> 3
      [] c = "4" -> 4 [] c = "5" -> 5 [] c = "6" -> 6 [] c = "7" -> 7
      [] c = "8" -> 8 [] c = "9" -> 9

Token(t, x, n) == [type |-> t, text |-> x, next |-> n]

RECURSIVE SkipSpace(_, _)
SkipSpace(json, p) ==
    IF p <= Len(json) /\ isspace(json[p]) THEN SkipSpace(json, p + 1) ELSE p

(* The index of the quote that closes a string opened before p, 0 if none. *)
RECURSIVE StringEnd(_, _)
StringEnd(json, p) ==
    IF p > Len(json) \/ json[p] = NUL THEN 0
    ELSE IF json[p] = "\"" THEN p
    ELSE StringEnd(json, p + 1)

RECURSIVE NumberEnd(_, _)
NumberEnd(json, p) ==
    IF p <= Len(json) /\ isdigit(json[p]) THEN NumberEnd(json, p + 1) ELSE p

Literal(json, p, word, type) ==
    IF p + Len(word) - 1 <= Len(json) /\ SubSeq(json, p, p + Len(word) - 1) = word
    THEN Token(type, word, p + Len(word))
    ELSE Token("ERROR", <<>>, p)

(* F(e), with e evaluated once. *)
With(e, F(_)) == CHOOSE r \in {F(x) : x \in {e}} : TRUE

(* The token that starts at position p, which is not white space. *)
lexer_json(json, p) ==
    IF p > Len(json) \/ json[p] = NUL THEN Token("EOF", <<>>, p)
    ELSE LET c == json[p] IN
         CASE c = "{" -> Token("OBJECT_START", <<c>>, p + 1)
           [] c = "}" -> Token("OBJECT_END", <<c>>, p + 1)
           [] c = "," -> Token("COMMA", <<c>>, p + 1)
           [] c = ":" -> Token("COLON", <<c>>, p + 1)
           [] c = "\"" ->
                With(StringEnd(json, p + 1), LAMBDA q :
                    IF q = 0 THEN Token("ERROR", <<>>, p)
                    ELSE Token("STRING", SubSeq(json, p + 1, q - 1), q + 1))
           [] c = "t" -> Literal(json, p, <<"t", "r", "u", "e">>, "TRUE")
           [] c = "f" -> Literal(json, p, <<"f", "a", "l", "s", "e">>, "FALSE")
           [] c = "n" -> Literal(json, p, <<"n", "u", "l", "l">>, "NULL")
           [] isdigit(c) \/ (c = "-" /\ p + 1 <= Len(json) /\ isdigit(json[p + 1])) ->
                With(NumberEnd(json, p + 1), LAMBDA q :
                    Token("NUMBER", SubSeq(json, p, q - 1), q))
           [] OTHER -> Token("ERROR", <<>>, p)

(* The next token at or after position p0. EOF and ERROR both end the      *)
(* lexer: lexer_next then returns false.                                   *)
lexer_next(json, p0) == With(SkipSpace(json, p0), LAMBDA p : lexer_json(json, p))

lexer_ok(tok) == tok.type \notin {"EOF", "ERROR"}

element_token(type) ==
    type \in {"OBJECT_START", "ARRAY_START", "STRING", "NUMBER", "TRUE", "FALSE", "NULL"}

KeyValue(e, k, v, n) == [err |-> e, key |-> k, value |-> v, next |-> n]

(* A key, the colon after it and the token of its value. *)
obj_key(json, key) ==
    With(lexer_next(json, key.next), LAMBDA colon :
        IF ~lexer_ok(colon) \/ colon.type # "COLON"
        THEN KeyValue(TRUE, <<>>, colon, colon.next)
        ELSE With(lexer_next(json, colon.next), LAMBDA value :
                 IF ~lexer_ok(value) \/ ~element_token(value.type)
                 THEN KeyValue(TRUE, <<>>, value, value.next)
                 ELSE KeyValue(FALSE, key.text, value, value.next)))

(* The end of the object, or its next key and value. *)
obj_next(json, p) ==
    With(lexer_next(json, p), LAMBDA tok :
        IF ~lexer_ok(tok) THEN KeyValue(TRUE, <<>>, tok, tok.next)
        ELSE CASE tok.type = "OBJECT_END" -> KeyValue(FALSE, <<>>, tok, tok.next)
               [] tok.type = "COMMA" ->
                    With(lexer_next(json, tok.next), LAMBDA key :
                        IF ~lexer_ok(key) \/ key.type # "STRING"
                        THEN KeyValue(TRUE, <<>>, key, key.next)
                        ELSE obj_key(json, key))
               [] tok.type = "STRING" -> obj_key(json, tok)
               [] OTHER -> KeyValue(TRUE, <<>>, tok, tok.next))

(* struct led_command and its descriptor: field i sets bit i-1 of the result. *)
led_command_descr ==
    << [field_name |-> <<"l", "e", "d", "_", "n", "u", "m">>,
        type |-> "NUMBER", field |-> "led_num"],
       [field_name |-> <<"l", "e", "d", "_", "s", "t", "a", "t", "e">>,
        type |-> "TRUE", field |-> "led_state"] >>

(* struct led_command cmd before decoding. Its fields are indeterminate and *)
(* parse_led_post reads them only once both are decoded.                   *)
UninitCmd == [led_num |-> 0, led_state |-> FALSE]

RECURSIVE Pow2(_)
Pow2(n) == IF n = 0 THEN 1 ELSE 2 * Pow2(n - 1)

BIT_MASK(n) == Pow2(n) - 1

RECURSIVE FieldBits(_)
FieldBits(S) ==
    IF S = {} THEN 0
    ELSE LET i == CHOOSE x \in S : TRUE IN Pow2(i - 1) + FieldBits(S \ {i})

(* strtol in base 10 over the digits of a NUMBER token. *)
RECURSIVE DecimalValue(_)
DecimalValue(digits) ==
    IF digits = <<>> THEN 0
    ELSE 10 * DecimalValue(SubSeq(digits, 1, Len(digits) - 1))
         + DigitValue(digits[Len(digits)])

decode_int32(text) ==
    IF text[1] = "-" THEN 0 - DecimalValue(Tail(text)) ELSE DecimalValue(text)

equivalent_types(a, b) ==
    \/ a = b
    \/ a \in {"TRUE", "FALSE"} /\ b \in {"TRUE", "FALSE"}

decode_value(descr, value) ==
    IF ~equivalent_types(value.type, descr.type) THEN [err |-> TRUE, v |-> 0]
    ELSE CASE descr.type = "NUMBER" -> [err |-> FALSE, v |-> decode_int32(value.text)]
           [] descr.type = "TRUE" -> [err |-> FALSE, v |-> (value.type = "TRUE")]

(* The first descriptor not decoded yet whose name is the key, 0 if none. *)
FieldOf(key, decoded) ==
    LET hits == {i \in 1..Len(led_command_descr) :
                    i \notin decoded /\ led_command_descr[i].field_name = key} IN
    IF hits = {} THEN 0 ELSE CHOOSE i \in hits : \A j \in hits : i <= j

(* The loop of obj_parse, from position p with the fields in `decoded` set. *)
RECURSIVE obj_parse(_, _, _, _)
obj_parse(json, p, decoded, val) ==
    With(obj_next(json, p), LAMBDA kv :
        IF kv.err THEN [ret |-> 0 - EINVAL, cmd |-> val]
        ELSE IF kv.value.type = "OBJECT_END"
        THEN [ret |-> FieldBits(decoded), cmd |-> val]
        ELSE With(FieldOf(kv.key, decoded), LAMBDA i :
            IF i = 0 THEN obj_parse(json, kv.next, decoded, val)
            ELSE With(decode_value(led_command_descr[i], kv.value), LAMBDA d :
                IF d.err THEN [ret |-> 0 - EINVAL, cmd |-> val]
                ELSE obj_parse(json, kv.next, decoded \cup {i},
                               [val EXCEPT ![led_command_descr[i].field] = d.v]))))

(* json_obj_parse(buf, len, led_command_descr, 2, &cmd): the bit mask of   *)
(* the decoded fields, or a negative error; it reads buf[0..len).          *)
json_obj_parse(buf, len) ==
    With(Take(buf, len), LAMBDA json :
        With(lexer_next(json, 1), LAMBDA open :
            IF ~lexer_ok(open) \/ open.type # "OBJECT_START"
            THEN [ret |-> 0 - EINVAL, cmd |-> UninitCmd]
            ELSE obj_parse(json, open.next, {}, UninitCmd)))

-----------------------------------------------------------------------------
(* parse_led_post and led_handler.                                          *)

expected_return_code == BIT_MASK(Len(led_command_descr))

(* parse_led_post taking any result that is not an error for a full decode. *)
parse_led_post_any_field(buf, len) ==
    With(json_obj_parse(buf, len), LAMBDA r :
        IF r.ret < 0 THEN <<>>
        ELSE IF leds_dev # NULL
             THEN IF r.cmd.led_state
                  THEN << [fn |-> "led_on", led |-> r.cmd.led_num] >>
                  ELSE << [fn |-> "led_off", led |-> r.cmd.led_num] >>
             ELSE <<>>)

(* The actuator calls parse_led_post(buf, len) makes: led_on or led_off,    *)
(* once, when both fields decode and the device exists; none otherwise.     *)
parse_led_post(buf, len) ==
    With(json_obj_parse(buf, len), LAMBDA r :
        IF r.ret # expected_return_code THEN <<>>
        ELSE IF leds_dev # NULL
             THEN IF r.cmd.led_state
                  THEN << [fn |-> "led_on", led |-> r.cmd.led_num] >>
                  ELSE << [fn |-> "led_off", led |-> r.cmd.led_num] >>
             ELSE <<>>)

(* The capacity check without the cursor, and the check with >= for >. *)
capacity_exceeded_no_cursor(data_len, cur) == data_len > sizeof_post_payload_buf
capacity_exceeded_ge(data_len, cur) == data_len + cur >= sizeof_post_payload_buf

(* request_ctx->data_len + cursor > sizeof(post_payload_buf) *)
capacity_exceeded(data_len, cur) ==
    size_t_gt(size_t_add(data_len, cur), sizeof_post_payload_buf)

(* The copy made to the start of the array whatever the cursor. *)
memcpy_at_start(buf, off, data) == Take(data, sizeof_post_payload_buf)

(* memcpy(buf + off, data, Len(data)): the bytes of the array below the    *)
(* end of the copy, for the part of the copy that lands in the array.       *)
memcpy(buf, off, data) ==
    Take(Take(buf, off) \o data, sizeof_post_payload_buf)

(* One invocation of led_handler on the statics post_payload_buf and cursor: *)
(* its return value, the statics and the response after it, and             *)
(* calls: the actuator calls it made;                                       *)
(* parsed: the byte strings handed to the decoder (none, or one at FINAL);  *)
(* oob: the copy wrote past the end of the array.                           *)

(* The ABORTED branch without its reset of the cursor. *)
led_aborted_keeps_cursor(response_ctx) ==
    [ret |-> 0, buf |-> post_payload_buf, cursor |-> cursor, rsp |-> response_ctx,
     calls |-> <<>>, parsed |-> <<>>, oob |-> FALSE]

(* The ABORTED branch returning the count of the bytes it drops. *)
led_aborted_returns_count(response_ctx) ==
    [ret |-> cursor, buf |-> <<>>, cursor |-> 0, rsp |-> response_ctx,
     calls |-> <<>>, parsed |-> <<>>, oob |-> FALSE]

(* if (status == HTTP_SERVER_DATA_ABORTED) { cursor = 0; return 0; } *)
led_aborted(response_ctx) ==
    [ret |-> 0, buf |-> <<>>, cursor |-> 0, rsp |-> response_ctx,
     calls |-> <<>>, parsed |-> <<>>, oob |-> FALSE]

(* The capacity branch returning success. *)
led_rejected_returns_0(response_ctx) ==
    [ret |-> 0, buf |-> <<>>, cursor |-> 0, rsp |-> response_ctx,
     calls |-> <<>>, parsed |-> <<>>, oob |-> FALSE]

(* if (data_len + cursor > sizeof(...)) { cursor = 0; return -ENOMEM; } *)
led_rejected(response_ctx) ==
    [ret |-> 0 - ENOMEM, buf |-> <<>>, cursor |-> 0, rsp |-> response_ctx,
     calls |-> <<>>, parsed |-> <<>>, oob |-> FALSE]

(* The copy and the decoding without the reset of the cursor after FINAL. *)
led_accepted_keeps_cursor(status, data, response_ctx) ==
    LET buf == memcpy(post_payload_buf, cursor, data)
        end == cursor + Len(data)
        oob == end > sizeof_post_payload_buf IN
    [ret |-> 0, buf |-> buf, cursor |-> end, rsp |-> response_ctx,
     calls |-> IF status = HTTP_SERVER_DATA_FINAL
               THEN parse_led_post(buf, end) ELSE <<>>,
     parsed |-> IF status = HTTP_SERVER_DATA_FINAL THEN <<Take(buf, end)>> ELSE <<>>,
     oob |-> oob]

(* The decoding tried after every event, not only at FINAL. *)
led_accepted_parses_each(status, data, response_ctx) ==
    LET buf == memcpy(post_payload_buf, cursor, data)
        end == cursor + Len(data)
        oob == end > sizeof_post_payload_buf IN
    IF status = HTTP_SERVER_DATA_FINAL
    THEN [ret |-> 0, buf |-> <<>>, cursor |-> 0, rsp |-> response_ctx,
          calls |-> parse_led_post(buf, end),
          parsed |-> <<Take(buf, end)>>, oob |-> oob]
    ELSE [ret |-> 0, buf |-> buf, cursor |-> end, rsp |-> response_ctx,
          calls |-> parse_led_post(buf, end), parsed |-> <<>>, oob |-> oob]

(* The handler answering a FINAL event with an empty final fragment. *)
led_accepted_replies(status, data, response_ctx) ==
    LET buf == memcpy(post_payload_buf, cursor, data)
        end == cursor + Len(data)
        oob == end > sizeof_post_payload_buf IN
    IF status = HTTP_SERVER_DATA_FINAL
    THEN [ret |-> 0, buf |-> <<>>, cursor |-> 0,
          rsp |-> [response_ctx EXCEPT !.final_chunk = TRUE],
          calls |-> parse_led_post(buf, end),
          parsed |-> <<Take(buf, end)>>, oob |-> oob]
    ELSE [ret |-> 0, buf |-> buf, cursor |-> end, rsp |-> response_ctx,
          calls |-> <<>>, parsed |-> <<>>, oob |-> oob]

(* memcpy, cursor += data_len, and on FINAL parse_led_post and cursor = 0. *)
led_accepted(status, data, response_ctx) ==
    LET buf == memcpy(post_payload_buf, cursor, data)
        end == cursor + Len(data)
        oob == end > sizeof_post_payload_buf IN
    IF status = HTTP_SERVER_DATA_FINAL
    THEN [ret |-> 0, buf |-> <<>>, cursor |-> 0, rsp |-> response_ctx,
          calls |-> parse_led_post(buf, end),
          parsed |-> <<Take(buf, end)>>, oob |-> oob]
    ELSE [ret |-> 0, buf |-> buf, cursor |-> end, rsp |-> response_ctx,
          calls |-> <<>>, parsed |-> <<>>, oob |-> oob]

(* led_handler with the capacity check made before the test for ABORTED. *)
led_handler_capacity_first(status, data, response_ctx) ==
    IF capacity_exceeded(Len(data), cursor) THEN led_rejected(response_ctx)
    ELSE IF status = HTTP_SERVER_DATA_ABORTED THEN led_aborted(response_ctx)
    ELSE led_accepted(status, data, response_ctx)

led_handler(status, data, response_ctx) ==
    IF status = HTTP_SERVER_DATA_ABORTED THEN led_aborted(response_ctx)
    ELSE IF capacity_exceeded(Len(data), cursor) THEN led_rejected(response_ctx)
    ELSE led_accepted(status, data, response_ctx)

-----------------------------------------------------------------------------
(* The transport on /led: a request body arrives in consecutive slices, as  *)
(* MORE_DATA events and one FINAL event with the rest, or is cut short by   *)
(* an ABORTED event. A request some event of which failed may also just be  *)
(* dropped.                                                                 *)

(* A request: its body, the count of its bytes delivered, whether a call    *)
(* for it failed, how it ended, and how the request before it ended.        *)
Idle ==
    [active |-> FALSE, body |-> <<>>, pos |-> 0, failed |-> FALSE,
     end |-> "none", prev |-> "none"]

(* The wire format of the command {led_num: 3, led_state: true} and of    *)
(* {led_num: 1, led_state: false}, and a command without its led_state.    *)
BodyOn ==
    <<"{", "\"", "l", "e", "d", "_", "n", "u", "m", "\"", ":", "3", ",", "\"", "l",
      "e", "d", "_", "s", "t", "a", "t", "e", "\"", ":", "t", "r", "u", "e", "}">>
BodyOff ==
    <<"{", "\"", "l", "e", "d", "_", "n", "u", "m", "\"", ":", "1", ",", "\"", "l",
      "e", "d", "_", "s", "t", "a", "t", "e", "\"", ":", "f", "a", "l", "s", "e", "}">>
BodyMissing ==
    <<"{", "\"", "l", "e", "d", "_", "n", "u", "m", "\"", ":", "3", "}">>
(* b followed by n spaces, which the decoder skips. *)
Pad(b, n) == b \o [i \in 1..n |-> " "]

MaxOver == 1

(* A well-formed body that fills the buffer, and one that is MaxOver too long. *)
BodyFull == Pad(BodyOn, sizeof_post_payload_buf - Len(BodyOn))
BodyOver == Pad(BodyOn, sizeof_post_payload_buf - Len(BodyOn) + MaxOver)

(* Both fields, led_state first. *)
BodySwapped ==
    <<"{", "\"", "l", "e", "d", "_", "s", "t", "a", "t", "e", "\"", ":", "t", "r",
      "u", "e", ",", "\"", "l", "e", "d", "_", "n", "u", "m", "\"", ":", "3", "}">>
(* BodyOn cut before its closing brace. *)
BodyTruncated == Take(BodyOn, Len(BodyOn) - 1)

LedBodies ==
    {<<>>, BodyMissing, BodyTruncated, BodyOn, BodyOff, BodySwapped, BodyFull, BodyOver}

Request(b, prev) ==
    [active |-> TRUE, body |-> b, pos |-> 0, failed |-> FALSE,
     end |-> "none", prev |-> prev]

(* The request after the transport called the handler with k of its bytes. *)
Delivered(req, status, k, ret) ==
    [req EXCEPT !.active = (status = HTTP_SERVER_DATA_MORE),
                !.pos = @ + k,
                !.failed = @ \/ ret # 0,
                !.end = IF status = HTTP_SERVER_DATA_MORE THEN "none" ELSE status]

(* What the model records of a handler invocation: the event, the static   *)
(* counter before the call (pre), the return value and the response, and   *)
(* for uptime_handler the clock value it read and whether snprintf failed. *)
Invocation(handler, status, data, pre, r, calls, parsed, now, io_error) ==
    [handler |-> handler, status |-> status, data |-> data, data_len |-> Len(data),
     pre |-> pre,
     ret |-> r.ret, rsp |-> r.rsp, calls |-> calls, parsed |-> parsed,
     now |-> now, io_error |-> io_error]

Remaining(req) == Len(req.body) - req.pos
Slice(req, k) == SubSeq(req.body, req.pos + 1, req.pos + k)

NoCall ==
    Invocation("none", "none", <<>>, 0, [ret |-> 0, rsp |-> EmptyRsp], <<>>, <<>>,
               <<0, 0, 0>>, FALSE)

LedStart(b) ==
    /\ ~led_req.active
    /\ led_req' = Request(b, led_req.end)
    /\ led_calls' = <<>>
    /\ last' = NoCall
    /\ UNCHANGED <<post_payload_buf, cursor, oob_write, led_req2, echoVars, uptimeVars,
                   leds_dev, clock, echo_req, uptime_req>>

(* The transport calls led_handler with `status` and the next k bytes; the  *)
(* request ends with a FINAL or an ABORTED event. led_req keeps the body    *)
(* and the count of the bytes delivered until the next request starts.      *)
LedCall(status, k) ==
    LET data == Slice(led_req, k)
        r == With(data, LAMBDA d : led_handler(status, d, EmptyRsp)) IN
    /\ post_payload_buf' = r.buf
    /\ cursor' = r.cursor
    /\ led_calls' = led_calls \o r.calls
    /\ oob_write' = (oob_write \/ r.oob)
    /\ last' = Invocation("led", status, data, cursor, r, r.calls, r.parsed,
                           <<0, 0, 0>>, FALSE)
    /\ led_req' = Delivered(led_req, status, k, r.ret)
    /\ UNCHANGED <<led_req2, echoVars, uptimeVars, leds_dev, clock, echo_req,
                   uptime_req>>

LedMore(k) ==
    /\ led_req.active
    /\ k \in 0..Remaining(led_req)
    /\ LedCall(HTTP_SERVER_DATA_MORE, k)

LedFinal ==
    /\ led_req.active
    /\ LedCall(HTTP_SERVER_DATA_FINAL, Remaining(led_req))

LedAbort(k) ==
    /\ led_req.active
    /\ k \in 0..Remaining(led_req)
    /\ LedCall(HTTP_SERVER_DATA_ABORTED, k)

(* After a failed call the transport may close the connection at once. *)
LedClose ==
    /\ led_req.active
    /\ last.handler = "led"
    /\ last.ret # 0
    /\ led_req' = [led_req EXCEPT !.active = FALSE, !.end = "closed"]
    /\ UNCHANGED <<ledVars, echoVars, uptimeVars, leds_dev, clock, echo_req,
                   uptime_req, last>>

(* led_handler on an event whose data_len is close to SIZE_MAX and whose    *)
(* bytes are not held here. When the capacity check lets it through, the    *)
(* memcpy of data_len bytes runs past the end of post_payload_buf, which is *)
(* undefined behaviour; cursor += data_len then leaves the wrapped sum.     *)
led_oversized(status, data_len, response_ctx) ==
    IF status = HTTP_SERVER_DATA_ABORTED THEN led_aborted(response_ctx)
    ELSE IF capacity_exceeded(data_len, cursor) THEN led_rejected(response_ctx)
    ELSE [ret |-> 0, buf |-> [i \in 1..size_t_add(cursor, data_len) |-> "?"],
          cursor |-> size_t_add(cursor, data_len), rsp |-> response_ctx,
          calls |-> <<>>, parsed |-> <<>>, oob |-> TRUE]

(* SIZE_MAX, SIZE_MAX - 1, SIZE_MAX - 31, SIZE_MAX - 32, and 2^31. *)
OversizedLengths ==
    {SizeT(HalfWord - 1, HalfWord - 1 - j) :
        j \in {0, 1, sizeof_post_payload_buf - 1, sizeof_post_payload_buf}}
    \cup {SizeT(HalfWord \div 2, 0)}

(* What follows a copy past the end of the array: the overrun raises a      *)
(* fault and the firmware restarts with its statics cleared, or the         *)
(* handler runs on with what the copy left.                                 *)
OverrunOutcomes == {"fault", "continue"}

LedOversized(status, n, outcome) ==
    LET r == led_oversized(status, n, EmptyRsp) IN
    /\ led_req.active
    /\ r.oob \/ outcome = "continue"
    /\ post_payload_buf' = IF r.oob /\ outcome = "fault" THEN <<>> ELSE r.buf
    /\ cursor' = IF r.oob /\ outcome = "fault" THEN 0 ELSE r.cursor
    /\ oob_write' = (oob_write \/ r.oob)
    /\ last' = [Invocation("led", status, <<>>, cursor, r, r.calls, r.parsed,
                            <<0, 0, 0>>, FALSE) EXCEPT !.data_len = n]
    /\ led_req' = [led_req EXCEPT !.active = FALSE,
                                  !.failed = @ \/ r.ret # 0,
                                  !.end = IF r.oob THEN "undefined" ELSE status]
    /\ UNCHANGED <<led_calls, led_req2, echoVars, uptimeVars, leds_dev, clock, echo_req,
                   uptime_req>>

(* A second connection with a request on /led of its own. The server calls  *)
(* the handlers from one thread, so the events of the two requests          *)
(* interleave whole, in any order, on the one post_payload_buf and cursor.   *)
Led2Start(b) ==
    /\ ~led_req2.active
    /\ led_req2' = Request(b, led_req2.end)
    /\ last' = NoCall
    /\ UNCHANGED <<post_payload_buf, cursor, led_calls, oob_write, led_req, echoVars,
                   uptimeVars, leds_dev, clock, echo_req, uptime_req>>

Led2Call(status, k) ==
    LET data == Slice(led_req2, k)
        r == With(data, LAMBDA d : led_handler(status, d, EmptyRsp)) IN
    /\ post_payload_buf' = r.buf
    /\ cursor' = r.cursor
    /\ oob_write' = (oob_write \/ r.oob)
    /\ last' = Invocation("led", status, data, cursor, r, r.calls, r.parsed,
                           <<0, 0, 0>>, FALSE)
    /\ led_req2' = Delivered(led_req2, status, k, r.ret)
    /\ UNCHANGED <<led_calls, led_req, echoVars, uptimeVars, leds_dev, clock, echo_req,
                   uptime_req>>

Led2More(k) ==
    /\ led_req2.active
    /\ k \in 0..Remaining(led_req2)
    /\ Led2Call(HTTP_SERVER_DATA_MORE, k)

Led2Final ==
    /\ led_req2.active
    /\ Led2Call(HTTP_SERVER_DATA_FINAL, Remaining(led_req2))

Led2Abort(k) ==
    /\ led_req2.active
    /\ k \in 0..Remaining(led_req2)
    /\ Led2Call(HTTP_SERVER_DATA_ABORTED, k)

-----------------------------------------------------------------------------
(* echo_handler on the static processed. The method string and print_str    *)
(* only feed the log. echo_handler_total is echo_handler with the running   *)
(* total for the length of the fragment.                                    *)
echo_handler_total(status, data, response_ctx) ==
    IF status = HTTP_SERVER_DATA_ABORTED
    THEN [ret |-> 0, processed |-> 0, rsp |-> response_ctx]
    ELSE [ret |-> 0,
          processed |-> IF status = HTTP_SERVER_DATA_FINAL
                        THEN 0 ELSE processed + Len(data),
          rsp |-> [body |-> PtrTo(data), body_len |-> processed,
                   final_chunk |-> (status = HTTP_SERVER_DATA_FINAL)]]

(* echo_handler without the reset of the counter on ABORTED. *)
echo_event_no_reset(status, body, data_len, response_ctx) ==
    IF status = HTTP_SERVER_DATA_ABORTED
    THEN [ret |-> 0, processed |-> processed, rsp |-> response_ctx]
    ELSE [ret |-> 0,
          processed |-> IF status = HTTP_SERVER_DATA_FINAL
                        THEN 0 ELSE size_t_add(processed, data_len),
          rsp |-> [body |-> body, body_len |-> data_len,
                   final_chunk |-> (status = HTTP_SERVER_DATA_FINAL)]]

(* echo_handler on an event whose request_ctx has data = body and the given *)
(* data_len.                                                                *)
echo_event(status, body, data_len, response_ctx) ==
    IF status = HTTP_SERVER_DATA_ABORTED
    THEN [ret |-> 0, processed |-> 0, rsp |-> response_ctx]
    ELSE [ret |-> 0,
          processed |-> IF status = HTTP_SERVER_DATA_FINAL
                        THEN 0 ELSE size_t_add(processed, data_len),
          rsp |-> [body |-> body, body_len |-> data_len,
                   final_chunk |-> (status = HTTP_SERVER_DATA_FINAL)]]

echo_handler(status, data, response_ctx) ==
    echo_event(status, PtrTo(data), Len(data), response_ctx)

(* The bytes the transport sends for a response: body_len bytes at body. *)
Sent(rsp) == IF rsp.body = NullPtr THEN <<>> ELSE Take(rsp.body[1], rsp.body_len)

(* The transport on /dynamic: bodies of up to MaxEchoLen bytes over two    *)
(* byte values.                                                            *)
MaxEchoLen == 3

RECURSIVE SeqsUpTo(_, _)
SeqsUpTo(S, n) ==
    IF n = 0 THEN {<<>>}
    ELSE LET shorter == SeqsUpTo(S, n - 1) IN
         shorter \cup {Append(q, x) : q \in shorter, x \in S}

EchoBodies == SeqsUpTo({"a", "b"}, MaxEchoLen)

EchoStart(b) ==
    /\ ~echo_req.active
    /\ echo_req' = Request(b, echo_req.end)
    /\ echo_in' = <<>>
    /\ echo_out' = <<>>
    /\ last' = NoCall
    /\ UNCHANGED <<processed, echo_total, ledVars, uptimeVars, leds_dev, clock, led_req,
                   uptime_req>>

(* EchoCall with processed and cursor being one static, shared by the two  *)
(* handlers.                                                               *)
EchoCall_shared_counter(status, k) ==
    LET data == Slice(echo_req, k)
        r == echo_handler(status, data, EmptyRsp) IN
    /\ processed' = r.processed
    /\ cursor' = r.processed
    /\ echo_in' = IF status = HTTP_SERVER_DATA_ABORTED THEN echo_in ELSE echo_in \o data
    /\ echo_out' = echo_out \o Sent(r.rsp)
    /\ echo_total' = IF status = HTTP_SERVER_DATA_MORE
                     THEN WideAdd(echo_total, Wide(Len(data)))
                     ELSE <<0, 0, 0>>
    /\ last' = Invocation("echo", status, data, processed, r, <<>>, <<>>,
                           <<0, 0, 0>>, FALSE)
    /\ echo_req' = Delivered(echo_req, status, k, r.ret)
    /\ UNCHANGED <<post_payload_buf, led_calls, oob_write, led_req2, uptimeVars,
                   leds_dev, clock, led_req, uptime_req>>

EchoCall(status, k) ==
    LET data == Slice(echo_req, k)
        r == echo_handler(status, data, EmptyRsp) IN
    /\ processed' = r.processed
    /\ echo_in' = IF status = HTTP_SERVER_DATA_ABORTED THEN echo_in ELSE echo_in \o data
    /\ echo_out' = echo_out \o Sent(r.rsp)
    /\ echo_total' = IF status = HTTP_SERVER_DATA_MORE
                     THEN WideAdd(echo_total, Wide(Len(data)))
                     ELSE <<0, 0, 0>>
    /\ last' = Invocation("echo", status, data, processed, r, <<>>, <<>>,
                           <<0, 0, 0>>, FALSE)
    /\ echo_req' = Delivered(echo_req, status, k, r.ret)
    /\ UNCHANGED <<ledVars, uptimeVars, leds_dev, clock, led_req, uptime_req>>

EchoMore(k) ==
    /\ echo_req.active
    /\ k \in 0..Remaining(echo_req)
    /\ EchoCall(HTTP_SERVER_DATA_MORE, k)

EchoFinal ==
    /\ echo_req.active
    /\ EchoCall(HTTP_SERVER_DATA_FINAL, Remaining(echo_req))

EchoAbort(k) ==
    /\ echo_req.active
    /\ k \in 0..Remaining(echo_req)
    /\ EchoCall(HTTP_SERVER_DATA_ABORTED, k)

(* A body of gigabytes streamed to /dynamic: the transport calls            *)
(* echo_handler with a MORE_DATA event of n bytes that are not held here,   *)
(* ahead of the bytes of echo_req.body; n may stand for the bytes of a run  *)
(* of MORE_DATA events. Long events stop once the request has carried       *)
(* MaxWraps * 2^32 bytes.                                                   *)
MaxWraps == 1

LongLengths == {SizeT(HalfWord \div 4, 0), SizeT(HalfWord \div 2 - 1, HalfWord - 1)}

LongPayload == PtrTo("request_ctx->data")

EchoLong(n) ==
    LET r == echo_event(HTTP_SERVER_DATA_MORE, LongPayload, n, EmptyRsp) IN
    /\ echo_req.active
    /\ echo_total[1] < MaxWraps
    /\ processed' = r.processed
    /\ echo_total' = WideAdd(echo_total, Wide(n))
    /\ last' = [Invocation("echo", HTTP_SERVER_DATA_MORE, <<>>, processed, r, <<>>,
                            <<>>, <<0, 0, 0>>, FALSE) EXCEPT !.data_len = n]
    /\ UNCHANGED <<echo_in, echo_out, echo_req, ledVars, uptimeVars, leds_dev, clock,
                   led_req, uptime_req>>

-----------------------------------------------------------------------------
(* uptime_handler. An int64_t is three limbs <<a, b, c>> in base 10^9, its  *)
(* value a * 10^18 + b * 10^9 + c.                                          *)

(* STRINGIFY(INT64_MAX): the shortest spelling the toolchains give it. *)
STRINGIFY_INT64_MAX ==
    <<"0", "x", "7", "f", "f", "f", "f", "f", "f", "f", "f", "f", "f", "f", "f", "f",
      "f", "f", "L", "L">>

INT64_MAX == <<9, 223372036, 854775807>>

DigitChar(d) == <<"0", "1", "2", "3", "4", "5", "6", "7", "8", "9">>[d + 1]

(* The last w decimal digits of n, most significant first. *)
RECURSIVE Padded(_, _)
Padded(n, w) ==
    IF w = 0 THEN <<>> ELSE Append(Padded(n \div 10, w - 1), DigitChar(n % 10))

RECURSIVE StripZeros(_)
StripZeros(text) ==
    IF Len(text) > 1 /\ text[1] = "0" THEN StripZeros(Tail(text)) ELSE text

(* The text "%" PRId64 gives a value that is not negative. *)
FormatInt64(v) == StripZeros(Padded(v[1], 1) \o Padded(v[2], 9) \o Padded(v[3], 9))

(* A buffer for the digits of INT64_MAX without the NUL that ends them. *)
sizeof_uptime_buf_no_nul == Len(FormatInt64(INT64_MAX))

(* sizeof(STRINGIFY(INT64_MAX)) *)
sizeof_uptime_buf == Len(STRINGIFY_INT64_MAX) + 1

(* snprintf(buf, size, "%" PRId64, v): the text cut to size - 1 bytes and a  *)
(* NUL are stored, the length of the whole text is returned; on an output   *)
(* error the result is negative.                                            *)
snprintf(buf, size, v, io_error) ==
    IF io_error THEN [ret |-> 0 - 1, buf |-> buf]
    ELSE LET text == FormatInt64(v)
             n == Min(Len(text), size - 1) IN
         [ret |-> Len(text),
          buf |-> Take(text, n) \o <<NUL>> \o SubSeq(buf, n + 2, Len(buf))]

(* The values the clock takes, in the order it takes them. *)
UptimeSamples ==
    << <<0, 0, 0>>, <<0, 0, 7>>, <<0, 0, 90210>>, <<0, 1, 0>>,
       <<0, 999999999, 999999999>>, <<1, 0, 0>>, INT64_MAX >>

k_uptime_get == UptimeSamples[clock]

(* uptime_handler formatting the clock on every event that is not ABORTED. *)
uptime_handler_every_event(status, data, response_ctx, io_error) ==
    IF status # HTTP_SERVER_DATA_ABORTED
    THEN LET r == snprintf(uptime_buf, sizeof_uptime_buf, k_uptime_get, io_error) IN
         IF r.ret < 0
         THEN [ret |-> r.ret, buf |-> r.buf, rsp |-> response_ctx]
         ELSE [ret |-> 0, buf |-> r.buf,
               rsp |-> [body |-> PtrTo(r.buf), body_len |-> r.ret,
                        final_chunk |-> TRUE]]
    ELSE [ret |-> 0, buf |-> uptime_buf, rsp |-> response_ctx]

uptime_handler(status, data, response_ctx, io_error) ==
    IF status = HTTP_SERVER_DATA_FINAL
    THEN LET r == snprintf(uptime_buf, sizeof_uptime_buf, k_uptime_get, io_error) IN
         IF r.ret < 0
         THEN [ret |-> r.ret, buf |-> r.buf, rsp |-> response_ctx]
         ELSE [ret |-> 0, buf |-> r.buf,
               rsp |-> [body |-> PtrTo(r.buf), body_len |-> r.ret,
                        final_chunk |-> TRUE]]
    ELSE [ret |-> 0, buf |-> uptime_buf, rsp |-> response_ctx]

(* The transport on /uptime: a GET, whose body is empty or a few bytes. *)
MaxUptimeBody == 2

UptimeBodies == SeqsUpTo({"a"}, MaxUptimeBody)

UptimeStart(b) ==
    /\ ~uptime_req.active
    /\ uptime_req' = Request(b, uptime_req.end)
    /\ last' = NoCall
    /\ UNCHANGED <<uptime_buf, ledVars, echoVars, leds_dev, clock, led_req,
                   echo_req>>

UptimeCall(status, k, io_error) ==
    LET data == Slice(uptime_req, k)
        r == uptime_handler(status, data, EmptyRsp, io_error) IN
    /\ uptime_buf' = r.buf
    /\ last' = Invocation("uptime", status, data, 0, r, <<>>, <<>>,
                           k_uptime_get, io_error)
    /\ uptime_req' = Delivered(uptime_req, status, k, r.ret)
    /\ UNCHANGED <<ledVars, echoVars, leds_dev, clock, led_req, echo_req>>

UptimeMore(k) ==
    /\ uptime_req.active
    /\ k \in 0..Remaining(uptime_req)
    /\ UptimeCall(HTTP_SERVER_DATA_MORE, k, FALSE)

UptimeFinal(io_error) ==
    /\ uptime_req.active
    /\ UptimeCall(HTTP_SERVER_DATA_FINAL, Remaining(uptime_req), io_error)

UptimeAbort(k) ==
    /\ uptime_req.active
    /\ k \in 0..Remaining(uptime_req)
    /\ UptimeCall(HTTP_SERVER_DATA_ABORTED, k, FALSE)

(* Time passes: the clock is monotonic. *)
Tick ==
    /\ clock < Len(UptimeSamples)
    /\ clock' = clock + 1
    /\ UNCHANGED <<ledVars, echoVars, uptimeVars, leds_dev, led_req, echo_req,
                   uptime_req, last>>

-----------------------------------------------------------------------------
Init ==
    /\ post_payload_buf = <<>>
    /\ cursor = 0
    /\ processed = 0
    /\ uptime_buf = [i \in 1..sizeof_uptime_buf |-> NUL]
    /\ leds_dev \in {NULL, "gpio_leds"}
    /\ clock = 1
    /\ led_req = Idle
    /\ echo_req = Idle
    /\ uptime_req = Idle
    /\ last = NoCall
    /\ led_calls = <<>>
    /\ oob_write = FALSE
    /\ echo_in = <<>>
    /\ echo_out = <<>>
    /\ echo_total = <<0, 0, 0>>
    /\ led_req2 = Idle

NextLed ==
    \/ \E b \in LedBodies : LedStart(b)
    \/ \E k \in 0..(sizeof_post_payload_buf + MaxOver) : LedMore(k)
    \/ LedFinal
    \/ \E k \in 0..(sizeof_post_payload_buf + MaxOver) : LedAbort(k)
    \/ LedClose

NextEcho ==
    \/ \E b \in EchoBodies : EchoStart(b)
    \/ \E k \in 0..MaxEchoLen : EchoMore(k)
    \/ EchoFinal
    \/ \E k \in 0..MaxEchoLen : EchoAbort(k)

NextUptime ==
    \/ \E b \in UptimeBodies : UptimeStart(b)
    \/ \E k \in 0..MaxUptimeBody : UptimeMore(k)
    \/ \E io_error \in BOOLEAN : UptimeFinal(io_error)
    \/ \E k \in 0..MaxUptimeBody : UptimeAbort(k)
    \/ Tick

(* Requests to /led that end in an error, among requests to /uptime. *)
ErrorBodies == {BodyMissing, BodyOver}

NextErrors ==
    \/ \E b \in ErrorBodies : LedStart(b)
    \/ \E k \in 0..(sizeof_post_payload_buf + MaxOver) : LedMore(k)
    \/ LedFinal
    \/ UptimeStart(<<>>)
    \/ \E io_error \in BOOLEAN : UptimeFinal(io_error)

(* Requests to /dynamic of a byte at most, behind gigabytes. *)
NextEchoLong ==
    \/ \E b \in SeqsUpTo({"a"}, 1) : EchoStart(b)
    \/ \E k \in 0..1 : EchoMore(k)
    \/ EchoFinal
    \/ \E k \in 0..1 : EchoAbort(k)
    \/ \E n \in LongLengths : EchoLong(n)

(* Two connections post to /led, {led_num: 3, led_state: true} on the one   *)
(* and {led_num: 1, led_state: false} on the other, each body split, if at  *)
(* all, after its first field.                                              *)
FieldSplit == Len(BodyMissing)

NextTwoLed ==
    \/ LedStart(BodyOn)
    \/ LedMore(FieldSplit)
    \/ LedFinal
    \/ \E k \in {0, FieldSplit} : LedAbort(k)
    \/ Led2Start(BodyOff)
    \/ Led2More(FieldSplit)
    \/ Led2Final
    \/ \E k \in {0, FieldSplit} : Led2Abort(k)

(* Requests to /led some event of which has a length close to SIZE_MAX. *)
NextWrap ==
    \/ LedStart(BodyFull)
    \/ \E k \in {1, FieldSplit, sizeof_post_payload_buf - 1} : LedMore(k)
    \/ LedFinal
    \/ LedAbort(0)
    \/ \E status \in {HTTP_SERVER_DATA_MORE, HTTP_SERVER_DATA_FINAL,
                       HTTP_SERVER_DATA_ABORTED} :
       \E n \in OversizedLengths :
       \E outcome \in OverrunOutcomes : LedOversized(status, n, outcome)

(* Requests to the three resources at once, their events interleaved: an   *)
(* empty JSON object to /led, up to MaxShared bytes to /dynamic, a GET to   *)
(* /uptime.                                                                 *)
MaxShared == 2

BodyEmptyObject == <<"{", "}">>

NextAll ==
    \/ LedStart(BodyEmptyObject)
    \/ \E k \in 0..Len(BodyEmptyObject) : LedMore(k)
    \/ LedFinal
    \/ \E k \in 0..Len(BodyEmptyObject) : LedAbort(k)
    \/ \E b \in SeqsUpTo({"a"}, MaxShared) : EchoStart(b)
    \/ \E k \in 0..MaxShared : EchoMore(k)
    \/ EchoFinal
    \/ \E k \in 0..MaxShared : EchoAbort(k)
    \/ UptimeStart(<<>>)
    \/ UptimeMore(0)
    \/ \E io_error \in BOOLEAN : UptimeFinal(io_error)
    \/ UptimeAbort(0)

(* A body whose first 33 bytes are white space and whose last bytes are a  *)
(* whole command: the bytes that follow a rejected event can decode.        *)
BodyResumed == Pad(<<>>, sizeof_post_payload_buf + 1) \o BodyOn

RejectedBodies == {BodyOver, BodyResumed}

(* Requests to /led longer than the buffer; the transport may close the     *)
(* connection after the failed call or go on delivering the request.        *)
NextRejected ==
    \/ \E b \in RejectedBodies : LedStart(b)
    \/ \E k \in 0..(sizeof_post_payload_buf + MaxOver) : LedMore(k)
    \/ LedFinal
    \/ \E k \in 0..(sizeof_post_payload_buf + MaxOver) : LedAbort(k)
    \/ LedClose

(* One specification for each resource: the requests to that resource alone. *)
SpecLed == Init /\ [][NextLed]_vars
SpecEcho == Init /\ [][NextEcho]_vars
SpecUptime == Init /\ [][NextUptime]_vars
SpecErrors == Init /\ [][NextErrors]_vars
SpecRejected == Init /\ [][NextRejected]_vars
SpecEchoLong == Init /\ [][NextEchoLong]_vars
SpecTwoLed == Init /\ [][NextTwoLed]_vars
SpecWrap == Init /\ [][NextWrap]_vars
SpecAll == Init /\ [][NextAll]_vars

-----------------------------------------------------------------------------
(* The properties.                                                          *)

LedEvent == last.handler = "led"
EchoEvent == last.handler = "echo"
UptimeEvent == last.handler = "uptime"

(* cursor + length > C as the event arrived. *)
OverCapacity == last.pre + Len(last.data) > sizeof_post_payload_buf

(* The bytes handed to the decoder do not decode into both fields. *)
DecodeFails ==
    /\ last.parsed # <<>>
    /\ json_obj_parse(last.parsed[1], Len(last.parsed[1])).ret # expected_return_code

(* The wire format of the command {led_num: n, led_state: s}. *)
EncodeLedCommand(n, s) ==
    <<"{", "\"">> \o led_command_descr[1].field_name \o <<"\"", ":">>
    \o FormatInt64(<<0, 0, n>>)
    \o <<",", "\"">> \o led_command_descr[2].field_name \o <<"\"", ":">>
    \o (IF s THEN <<"t", "r", "u", "e">> ELSE <<"f", "a", "l", "s", "e">>)
    \o <<"}">>

(* setState(n, s) of the actuator. *)
ActuatorCall(n, s) == [fn |-> IF s THEN "led_on" ELSE "led_off", led |-> n]

(* The commands whose wire format, padded or not, is the body of the request. *)
CommandsOf(body) ==
    {c \in [led_num : 0..9, led_state : BOOLEAN] :
        \E j \in 0..(sizeof_post_payload_buf - Len(BodyOn)) :
            body = Pad(EncodeLedCommand(c.led_num, c.led_state), j)}

(* C1. Echo identity: at every point of a request to the echo handler the   *)
(* response bodies emitted so far, concatenated, are the payloads received  *)
(* so far, concatenated; each fragment's body and length are its event's    *)
(* payload and length; final_chunk is set on the fragment of the FINAL      *)
(* event and on no other; after FINAL the output is the whole body.         *)
C1_EchoIdentity ==
    /\ echo_out = echo_in
    /\ (EchoEvent /\ last.status # HTTP_SERVER_DATA_ABORTED) =>
          /\ last.rsp.body = PtrTo(last.data)
          /\ last.rsp.body_len = Len(last.data)
          /\ last.rsp.final_chunk = (last.status = HTTP_SERVER_DATA_FINAL)
    /\ (echo_req.end = HTTP_SERVER_DATA_FINAL) => echo_out = echo_req.body

(* A body of several bytes echoed in more than one fragment, the last one  *)
(* not empty.                                                              *)
C1_Witness ==
    /\ EchoEvent
    /\ echo_req.end = HTTP_SERVER_DATA_FINAL
    /\ Len(echo_req.body) >= 2
    /\ Len(last.data) \in 1..(Len(echo_req.body) - 1)
    /\ echo_out = echo_req.body
    /\ last.rsp.final_chunk

(* C2. Accumulator bound: whatever MORE_DATA, FINAL and ABORTED events      *)
(* led_handler has received, 0 <= cursor <= 32, the cursor counts the bytes *)
(* held, and no copy wrote a byte at an offset >= 32.                       *)
C2_AccumulatorBound ==
    /\ cursor \in 0..sizeof_post_payload_buf
    /\ Len(post_payload_buf) = cursor
    /\ ~oob_write

(* The buffer is full after a MORE_DATA event of a request that follows an *)
(* aborted one.                                                            *)
C2_Witness ==
    /\ LedEvent
    /\ last.status = HTTP_SERVER_DATA_MORE
    /\ led_req.prev = HTTP_SERVER_DATA_ABORTED
    /\ cursor = sizeof_post_payload_buf

(* C3. Capacity boundary: a MORE_DATA event of 32 bytes that arrives with   *)
(* cursor = 0 returns 0 and leaves cursor = 32; a MORE_DATA or FINAL event  *)
(* of one byte or more that arrives with cursor = 32 returns -ENOMEM and    *)
(* leaves cursor = 0.                                                       *)
C3_CapacityBoundary ==
    /\ ( /\ LedEvent
         /\ last.status = HTTP_SERVER_DATA_MORE
         /\ last.pre = 0
         /\ Len(last.data) = sizeof_post_payload_buf )
       => (last.ret = 0 /\ cursor = sizeof_post_payload_buf)
    /\ ( /\ LedEvent
         /\ last.status \in {HTTP_SERVER_DATA_MORE, HTTP_SERVER_DATA_FINAL}
         /\ last.pre = sizeof_post_payload_buf
         /\ Len(last.data) >= 1 )
       => (last.ret = 0 - ENOMEM /\ cursor = 0)

(* The event after the buffer was filled is rejected: all 32 bytes that    *)
(* came before it were accepted, and this one carries the rest.            *)
C3_Witness ==
    /\ LedEvent
    /\ last.status = HTTP_SERVER_DATA_FINAL
    /\ last.pre = sizeof_post_payload_buf
    /\ Len(last.data) >= 1
    /\ led_req.pos = sizeof_post_payload_buf + Len(last.data)
    /\ last.ret = 0 - ENOMEM
    /\ cursor = 0

(* C4 as the specification states it: at the FINAL event of a request whose *)
(* body has at most 32 bytes, however the body was split, the decoder gets  *)
(* the body, and the wire format of a command {led_num: n, led_state: s}    *)
(* causes exactly one actuator call for the request, with (n, s).           *)
C4_AsStated ==
    (LedEvent /\ last.status = HTTP_SERVER_DATA_FINAL
        /\ Len(led_req.body) <= sizeof_post_payload_buf)
    => /\ last.parsed = <<led_req.body>>
       /\ \A c \in CommandsOf(led_req.body) :
             led_calls = <<ActuatorCall(c.led_num, c.led_state)>>

(* C4, amended. The same, the actuator call being made when the LED device  *)
(* exists; when leds_dev is NULL the command is decoded and no call is made. *)
C4_ChunkReassembly ==
    (LedEvent /\ last.status = HTTP_SERVER_DATA_FINAL
        /\ Len(led_req.body) <= sizeof_post_payload_buf)
    => /\ last.parsed = <<led_req.body>>
       /\ \A c \in CommandsOf(led_req.body) :
             led_calls = IF leds_dev # NULL
                         THEN <<ActuatorCall(c.led_num, c.led_state)>>
                         ELSE <<>>

(* {led_num: 3, led_state: true}, its FINAL event carrying only a part of   *)
(* it, switched the LED on once.                                            *)
C4_Witness ==
    /\ LedEvent
    /\ last.status = HTTP_SERVER_DATA_FINAL
    /\ led_req.body = EncodeLedCommand(3, TRUE)
    /\ Len(last.data) \in 1..(Len(led_req.body) - 1)
    /\ last.parsed = <<led_req.body>>
    /\ leds_dev # NULL
    /\ led_calls = <<ActuatorCall(3, TRUE)>>

(* C5. Malformed payload: when the bytes accumulated at a FINAL event do    *)
(* not decode into both fields (led_state missing, an empty body, a body    *)
(* cut short), the handler makes no actuator call and leaves cursor = 0.    *)
C5_MalformedPayload ==
    (LedEvent /\ last.status = HTTP_SERVER_DATA_FINAL /\ last.parsed # <<>>
        /\ (DecodeFails \/ last.parsed[1] \in {<<>>, BodyMissing, BodyTruncated}))
    => /\ last.calls = <<>>
       /\ led_calls = <<>>
       /\ cursor = 0

(* {led_num: 3} arrived in two events or more and the LED device exists. *)
C5_Witness ==
    /\ LedEvent
    /\ last.status = HTTP_SERVER_DATA_FINAL
    /\ last.parsed = <<BodyMissing>>
    /\ last.pre > 0
    /\ leds_dev # NULL
    /\ led_calls = <<>>
    /\ cursor = 0

(* The three error kinds. *)
CapacityExceeded == LedEvent /\ last.status # HTTP_SERVER_DATA_ABORTED /\ OverCapacity
MalformedPayload == LedEvent /\ last.status = HTTP_SERVER_DATA_FINAL /\ DecodeFails
EncodingError == UptimeEvent /\ last.status = HTTP_SERVER_DATA_FINAL /\ last.io_error

(* C6 as the specification states it: the invocation in which any of the    *)
(* three errors occurs returns a failure to the transport.                  *)
C6_AsStated ==
    (CapacityExceeded \/ MalformedPayload \/ EncodingError) => last.ret # 0

(* C6, amended. A capacity violation resets the cursor and returns -ENOMEM; *)
(* a failure of snprintf makes uptime_handler return its negative result    *)
(* and set no fragment; a payload that does not decode resets the cursor    *)
(* and makes no actuator call, and led_handler returns 0 for it.            *)
C6_FailureSignalling ==
    /\ CapacityExceeded => (last.ret = 0 - ENOMEM /\ cursor = 0)
    /\ MalformedPayload => (last.ret = 0 /\ cursor = 0 /\ last.calls = <<>>)
    /\ EncodingError => (last.ret < 0 /\ last.rsp = EmptyRsp)

(* {led_num: 3} at FINAL: the decoding failed and led_handler returned 0. *)
C6_Witness ==
    /\ MalformedPayload
    /\ last.parsed = <<BodyMissing>>
    /\ last.ret = 0
    /\ cursor = 0

(* C7. Encoding overflow: every fragment uptime_handler emits has body_len  *)
(* below the size of uptime_buf and holds the whole formatted clock value;  *)
(* a value whose text would not fit makes the handler fail with no fragment *)
(* (no int64_t value has such a text: the buffer is sized for INT64_MAX).   *)
C7_EncodingFits ==
    UptimeEvent =>
        /\ (last.rsp # EmptyRsp) =>
              /\ last.ret = 0
              /\ last.rsp.body_len < sizeof_uptime_buf
              /\ Sent(last.rsp) = FormatInt64(last.now)
        /\ (last.status = HTTP_SERVER_DATA_FINAL
                /\ Len(FormatInt64(last.now)) >= sizeof_uptime_buf)
           => (last.ret # 0 /\ last.rsp = EmptyRsp)

(* The longest text, that of INT64_MAX, emitted whole. *)
C7_Witness ==
    /\ UptimeEvent
    /\ last.status = HTTP_SERVER_DATA_FINAL
    /\ last.now = INT64_MAX
    /\ last.rsp.final_chunk
    /\ last.rsp.body_len = Len(FormatInt64(INT64_MAX))
    /\ Sent(last.rsp) = FormatInt64(INT64_MAX)

(* C8. Abort resets state: after an ABORTED event, whatever was accumulated *)
(* and whatever the event carries, cursor = 0; a request arrives to an      *)
(* empty accumulator; and in the request after an aborted one every event   *)
(* is appended at the offset of that request's own bytes, and its FINAL     *)
(* decodes that request's bytes alone.                                      *)
C8_AbortResets ==
    /\ (LedEvent /\ last.status = HTTP_SERVER_DATA_ABORTED)
       => (cursor = 0 /\ post_payload_buf = <<>> /\ last.ret = 0)
    /\ (led_req.active /\ last = NoCall) => cursor = 0
    /\ (LedEvent /\ led_req.prev = HTTP_SERVER_DATA_ABORTED /\ ~led_req.failed)
       => /\ last.pre = led_req.pos - Len(last.data)
          /\ (last.status = HTTP_SERVER_DATA_FINAL) => last.parsed = <<led_req.body>>

(* An ABORTED event that carried bytes and found bytes accumulated. *)
C8_Witness ==
    /\ LedEvent
    /\ last.status = HTTP_SERVER_DATA_ABORTED
    /\ last.pre > 0
    /\ Len(last.data) > 0
    /\ led_req.prev = HTTP_SERVER_DATA_ABORTED
    /\ cursor = 0

(* C9. Reset on completion: after a FINAL event that passes the capacity    *)
(* check, cursor = 0, whether the accumulated bytes decoded or not.         *)
C9_ResetOnCompletion ==
    (LedEvent /\ last.status = HTTP_SERVER_DATA_FINAL /\ ~OverCapacity)
    => (cursor = 0 /\ post_payload_buf = <<>> /\ last.parsed # <<>>)

(* A FINAL event whose accumulated bytes did not decode. *)
C9_Witness ==
    /\ LedEvent
    /\ last.status = HTTP_SERVER_DATA_FINAL
    /\ ~OverCapacity
    /\ last.pre > 0
    /\ DecodeFails
    /\ cursor = 0

(* C10 as the specification states it: for an event of any status, if       *)
(* cursor + length > 32 the handler resets the cursor and returns -ENOMEM.  *)
C10_AsStated ==
    (LedEvent /\ OverCapacity) => (last.ret = 0 - ENOMEM /\ cursor = 0)

(* C10, amended. For a MORE_DATA or FINAL event, if cursor + length > 32    *)
(* the handler resets the cursor and returns -ENOMEM; an ABORTED event is   *)
(* handled before the capacity check: it resets the cursor and returns 0    *)
(* whatever its length.                                                     *)
C10_CapacityCheck ==
    /\ (LedEvent /\ last.status # HTTP_SERVER_DATA_ABORTED /\ OverCapacity)
       => (last.ret = 0 - ENOMEM /\ cursor = 0 /\ last.parsed = <<>>)
    /\ (LedEvent /\ last.status = HTTP_SERVER_DATA_ABORTED)
       => (last.ret = 0 /\ cursor = 0)

(* An ABORTED event with cursor + length > 32, which returned 0. *)
C10_Witness ==
    /\ LedEvent
    /\ last.status = HTTP_SERVER_DATA_ABORTED
    /\ OverCapacity
    /\ last.ret = 0
    /\ cursor = 0

(* C11. No partial effect after a capacity violation: in a request some     *)
(* event of which was rejected with -ENOMEM, no actuator call is made for   *)
(* that request, also when the transport goes on to deliver the request's   *)
(* remaining MORE_DATA events and its FINAL event.                          *)
C11_NoEffectAfterRejection ==
    led_req.failed => led_calls = <<>>

(* C12. Uptime response: uptime_handler sets a response fragment only on a  *)
(* FINAL event, and that fragment has final_chunk set and the formatted     *)
(* clock value for its body; a MORE_DATA or an ABORTED event, whatever its  *)
(* payload, returns 0, sets no fragment and changes no static state.        *)
C12_FragmentOnFinalOnly ==
    UptimeEvent =>
        /\ (last.rsp # EmptyRsp) =>
              /\ last.status = HTTP_SERVER_DATA_FINAL
              /\ last.rsp.final_chunk
              /\ last.rsp.body = PtrTo(uptime_buf)
              /\ Sent(last.rsp) = FormatInt64(last.now)
        /\ (last.status # HTTP_SERVER_DATA_FINAL) =>
              (last.ret = 0 /\ last.rsp = EmptyRsp)

C12_NoStateChange ==
    (last'.handler = "uptime" /\ last'.status # HTTP_SERVER_DATA_FINAL)
    => UNCHANGED <<uptime_buf, ledVars, echoVars>>

(* C12: uptime_handler sets a fragment on FINAL events only, and its other  *)
(* invocations return 0 and change no static state.                        *)
C12_UptimeResponse == []C12_FragmentOnFinalOnly /\ [][C12_NoStateChange]_vars

(* An ABORTED event that carries bytes, after a FINAL event of an earlier   *)
(* request filled uptime_buf: no fragment, and the buffer as it was.        *)
C12_Witness ==
    /\ UptimeEvent
    /\ last.status = HTTP_SERVER_DATA_ABORTED
    /\ Len(last.data) > 0
    /\ last.ret = 0
    /\ last.rsp = EmptyRsp
    /\ uptime_buf[1] # NUL

(* C13 as the specification states it: an ABORTED event makes echo_handler *)
(* set no fragment and return 0; the running total is the sum of the        *)
(* lengths of the events received since the last FINAL or ABORTED event,    *)
(* and it is 0 after every FINAL and every ABORTED event.                   *)
C13_AsStated ==
    /\ (EchoEvent /\ last.status = HTTP_SERVER_DATA_ABORTED)
       => (last.ret = 0 /\ last.rsp = EmptyRsp)
    /\ Wide(processed) = echo_total
    /\ ~echo_req.active => processed = 0

(* C13, amended. The same, the running total being the sum modulo 2^32,     *)
(* the range of size_t: it is less than the sum once the events since the   *)
(* last FINAL or ABORTED event carry 2^32 bytes or more.                    *)
C13_EchoCounter ==
    /\ (EchoEvent /\ last.status = HTTP_SERVER_DATA_ABORTED)
       => (last.ret = 0 /\ last.rsp = EmptyRsp)
    /\ Wide(processed) = <<0, echo_total[2], echo_total[3]>>
    /\ ~echo_req.active => processed = 0

(* The events of a request carry 2^32 bytes or more and the total wrapped. *)
C13_Witness ==
    /\ EchoEvent
    /\ last.status = HTTP_SERVER_DATA_MORE
    /\ echo_req.active
    /\ echo_total[1] > 0
    /\ Wide(processed) # echo_total
    /\ Wide(processed) = <<0, echo_total[2], echo_total[3]>>

(* C14. Idempotent reset: an ABORTED event leaves cursor = 0 and returns 0; *)
(* a second ABORTED event with no data event between the two finds the      *)
(* accumulator as the first left it and leaves it so, with the same return  *)
(* value.                                                                   *)
C14_IdempotentAbort ==
    /\ (LedEvent /\ last.status = HTTP_SERVER_DATA_ABORTED)
       => (last.ret = 0 /\ cursor = 0 /\ post_payload_buf = <<>>)
    /\ ( /\ LedEvent
         /\ last.status = HTTP_SERVER_DATA_ABORTED
         /\ led_req.prev = HTTP_SERVER_DATA_ABORTED
         /\ led_req.pos = Len(last.data) )
       => (last.pre = 0 /\ cursor = last.pre /\ last.calls = <<>>)

(* The first event of the request after an aborted one is ABORTED too. *)
C14_Witness ==
    /\ LedEvent
    /\ last.status = HTTP_SERVER_DATA_ABORTED
    /\ led_req.prev = HTTP_SERVER_DATA_ABORTED
    /\ led_req.pos = Len(last.data)
    /\ last.pre = 0
    /\ last.ret = 0
    /\ cursor = 0

(* C15. The actuator is called only on a successfully decoded FINAL: an     *)
(* invocation of led_handler makes one actuator call at most, and makes it  *)
(* only for a FINAL event whose accumulated bytes decode into both fields,  *)
(* with the decoded values; MORE_DATA events, ABORTED events and rejected    *)
(* events make none, and the payload of an ABORTED event is not appended.   *)
C15_ActuatorOnlyOnDecodedFinal ==
    LedEvent =>
        /\ Len(last.calls) <= 1
        /\ (last.calls # <<>>) =>
              /\ last.status = HTTP_SERVER_DATA_FINAL
              /\ last.ret = 0
              /\ ~OverCapacity
              /\ ~DecodeFails
              /\ leds_dev # NULL
              /\ LET c == json_obj_parse(last.parsed[1], Len(last.parsed[1])).cmd IN
                     last.calls = <<ActuatorCall(c.led_num, c.led_state)>>
        /\ (last.status = HTTP_SERVER_DATA_ABORTED) =>
              (post_payload_buf = <<>> /\ cursor = 0 /\ last.parsed = <<>>)

(* A FINAL event completed {led_num: 1, led_state: false}: one led_off. *)
C15_Witness ==
    /\ LedEvent
    /\ last.status = HTTP_SERVER_DATA_FINAL
    /\ last.parsed = <<BodyOff>>
    /\ last.calls = <<ActuatorCall(1, FALSE)>>
    /\ led_calls = last.calls

(* The response contexts a transport may pass: a cleared one, one in use. *)
ResponseCtxs ==
    {EmptyRsp, [body |-> PtrTo(<<"O", "K">>), body_len |-> 2, final_chunk |-> TRUE]}

(* C16. No reply from the LED handler: whatever the status of an event and  *)
(* whatever its outcome, led_handler leaves the response fragment (body,    *)
(* body_len, final_chunk) as it was given.                                  *)
C16_NoReply ==
    /\ LedEvent => last.rsp = EmptyRsp
    /\ led_req.active =>
          \A response_ctx \in ResponseCtxs :
          \A status \in {HTTP_SERVER_DATA_MORE, HTTP_SERVER_DATA_FINAL,
                         HTTP_SERVER_DATA_ABORTED} :
          \A k \in {0, Remaining(led_req)} :
              led_handler(status, Slice(led_req, k), response_ctx).rsp = response_ctx

(* A FINAL event that switched an LED on, and no fragment. *)
C16_Witness ==
    /\ LedEvent
    /\ last.status = HTTP_SERVER_DATA_FINAL
    /\ last.calls = <<ActuatorCall(3, TRUE)>>
    /\ last.pre > 0
    /\ last.rsp = EmptyRsp

(* C17. Single in-flight request: a request that has /led to itself is      *)
(* decoded as the concatenation of its own payloads; when the events of two *)
(* requests interleave, what a FINAL event decodes is what the accumulator  *)
(* held, whichever request's events left it, followed by the payload of the *)
(* FINAL event, and a state is reachable in which that is not the body of   *)
(* the request the FINAL event ends.                                        *)
C17_AloneDecodesOwnBody ==
    (LedEvent /\ last.status = HTTP_SERVER_DATA_FINAL /\ led_req2 = Idle)
    => last.parsed = <<led_req.body>>

C17_DecodesAccumulator ==
    (last'.handler = "led" /\ last'.status = HTTP_SERVER_DATA_FINAL /\ last'.ret = 0)
    => last'.parsed = <<post_payload_buf \o last'.data>>

(* C17: alone on /led a request is decoded as its own body; a FINAL event   *)
(* decodes the shared accumulator, whichever request's events filled it.    *)
C17_SharedAccumulator ==
    []C17_AloneDecodesOwnBody /\ [][C17_DecodesAccumulator]_vars

(* The request of the first connection was delivered whole, no event of it  *)
(* failed, and its FINAL event decoded the first field of the other         *)
(* connection's request with its own second field: an actuator call that    *)
(* neither request asked for.                                               *)
C17_Witness ==
    /\ LedEvent
    /\ last.status = HTTP_SERVER_DATA_FINAL
    /\ led_req.end = HTTP_SERVER_DATA_FINAL
    /\ ~led_req.failed
    /\ led_req2.active
    /\ led_req.body = EncodeLedCommand(3, TRUE)
    /\ led_req2.body = EncodeLedCommand(1, FALSE)
    /\ last.parsed = <<EncodeLedCommand(1, TRUE)>>
    /\ last.calls = <<ActuatorCall(1, TRUE)>>

(* cursor + length, the sum of integers, exceeds C as the event arrived. *)
TrueSumExceeds ==
    LET sum == WideAdd(Wide(last.pre), Wide(last.data_len)) IN
    sum[1] > 0 \/ sum[2] > 0 \/ sum[3] > sizeof_post_payload_buf

(* C18. The capacity check under size_t wrap-around: for every length a     *)
(* size_t can hold, a MORE_DATA or FINAL event with cursor + length > C is  *)
(* rejected with -ENOMEM, so that no copy runs past the end of the buffer.  *)
C18_NoWrapAround ==
    (LedEvent /\ last.status # HTTP_SERVER_DATA_ABORTED /\ TrueSumExceeds)
    => (last.ret = 0 - ENOMEM /\ cursor = 0 /\ ~oob_write)

(* C19. Handler independence: an invocation of echo_handler or of          *)
(* uptime_handler leaves post_payload_buf and cursor unchanged, and an      *)
(* invocation of led_handler or of uptime_handler leaves processed          *)
(* unchanged, in every interleaving of requests to the three resources.     *)
C19_Frame ==
    /\ (last'.handler \in {"echo", "uptime"}) => UNCHANGED <<post_payload_buf, cursor>>
    /\ (last'.handler \in {"led", "uptime"}) => UNCHANGED processed

(* C19: no invocation of a handler changes the statics of another handler. *)
C19_HandlerIndependence == [][C19_Frame]_vars

(* uptime_handler answered while /led and /dynamic each had bytes counted. *)
C19_Witness ==
    /\ UptimeEvent
    /\ last.status = HTTP_SERVER_DATA_FINAL
    /\ led_req.active
    /\ echo_req.active
    /\ cursor > 0
    /\ processed > cursor
    /\ uptime_buf[1] # NUL

====
